---- MODULE Spec2Model ----
(***************************************************************************)
(* State-machine model of utils/processing_pipeline.py: ProcessingPipeline *)
(* (priority queues, worker threads, retry timers, confidence scoring).    *)
(*                                                                         *)
(* ProcessingTask objects live in the heap `objs` (one per submit_task     *)
(* call that got past _generate_task_id); the three dictionaries map a     *)
(* task id to an index of `objs`, as Python dictionaries hold references.  *)
(* Optional fields hold None (the empty tuple) or a one-element tuple.     *)
(* Confidence values are in hundredths (80 is 0.8).                        *)
(***************************************************************************)
EXTENDS Integers, Sequences, FiniteSets, Bags, TLC

\* ---- bounds of the model ------------------------------------------------
MaxSubmits == 2
MaxClock == 1
MaxThreads == 2
MaxQueueSize == 2
MaxRetryCount == 6
MaxQuestions == 2
MaxSteps == 2
MaxLines == 3
MaxWritten == 3

\* ---- enumerations (lines 15-26) -----------------------------------------
None == << >>
Some(v) == << v >>

ProcessingStatus == {"pending", "processing", "completed", "failed", "retrying"}

ProcessingPriority == {"LOW", "NORMAL", "HIGH", "URGENT"}

PriorityValue(p) ==
    CASE p = "LOW" -> 1
      [] p = "NORMAL" -> 2
      [] p = "HIGH" -> 3
      [] p = "URGENT" -> 4

\* the order in which _worker_loop polls the queues
ScanOrder == << "URGENT", "HIGH", "NORMAL", "LOW" >>

\* ProcessingTask.max_retries, the dataclass default submit_task leaves alone
max_retries == 3

\* self.retry_delays
retry_delays == << 1, 5, 15, 30 >>

\* _register_default_handlers: the task types with a registered handler
task_handlers == {"ocr_extraction", "grading", "report_generation", "file_processing"}

\* ---- inputs of submit_task ----------------------------------------------
\* a payload json.dumps can serialise, and one holding raw bytes (image_data,
\* file_data), which json.dumps rejects with TypeError
JsonPayload == "json_payload"
BytesPayload == "bytes_payload"

JsonSerializable(data) == data = JsonPayload

\* the calls of submit_task the model makes: (task_type, data, priority)
SubmitInputs ==
    { << "grading", JsonPayload, "NORMAL" >>,
      << "grading", JsonPayload, "URGENT" >>,
      << "custom", JsonPayload, "NORMAL" >>,
      << "ocr_extraction", BytesPayload, "NORMAL" >> }

\* durations of a handler call in seconds, and the results a handler returns
Durations == {1}

HandlerResults(task_type) ==
    IF task_type = "grading"
    THEN { [grading_confidence |-> 90] }
    ELSE { [processing_success |-> TRUE] }

TypeCode(task_type) ==
    CASE task_type = "grading" -> 0
      [] task_type = "custom" -> 1
      [] OTHER -> 2

\* hashlib.md5(content).hexdigest()[:12] of "<type>_<json>_<time>": equal
\* content gives equal ids; the order of the hex strings is unrelated to the
\* order of submission.  Ids are compared as the queue compares them.
md5(task_type, data, t) == ((t * 3 + TypeCode(task_type)) * 5 + 3) % 251

VARIABLES
    max_workers,      \* constructor argument
    max_queue_size,   \* constructor argument
    queues,           \* priority -> the (priority.value, task_id) entries, in insertion order
    objs,             \* heap of ProcessingTask objects
    tasks,            \* self.tasks: task_id -> object
    completed_tasks,  \* self.completed_tasks
    failed_tasks,     \* self.failed_tasks
    is_running,
    workers,          \* self.workers: the threads start() created
    metrics,
    timers,           \* bag of task ids with a pending threading.Timer
    ctl,              \* the thread calling start()/stop(): "idle" or "joining"
    submit_ret,       \* outcome of the latest submit_task call
    probe             \* a call of a pure function: its inputs and its result

vars == << max_workers, max_queue_size, queues, objs, tasks, completed_tasks,
           failed_tasks, is_running, workers, metrics, timers, ctl,
           submit_ret, probe >>

pipeline == << max_workers, max_queue_size, queues, objs, tasks, completed_tasks,
               failed_tasks, is_running, workers, metrics, timers, ctl,
               submit_ret >>

config == << max_workers, max_queue_size >>

\* ---- dictionaries ---------------------------------------------------------
Put(d, k, v) == [x \in DOMAIN d \cup {k} |-> IF x = k THEN v ELSE d[x]]
Del(d, k) == [x \in DOMAIN d \ {k} |-> d[x]]
EmptyDict == [x \in {} |-> 0]

\* ---- queue.PriorityQueue(maxsize) -----------------------------------------
\* a queue that takes one entry more than maxsize
FullAboveMaxsize(q) == Len(q) > max_queue_size

Full(q) == Len(q) >= max_queue_size

MinOf(S) == CHOOSE m \in S : \A x \in S : m <= x
Range(q) == { q[i] : i \in DOMAIN q }
FirstIndex(q, v) == MinOf({ i \in DOMAIN q : q[i] = v })
RemoveAt(q, i) == SubSeq(q, 1, i - 1) \o SubSeq(q, i + 1, Len(q))

\* get(): every entry of one queue has the same priority.value, so heapq pops
\* the entry with the smallest task_id
QueueMin(q) == MinOf(Range(q))
QueuePop(q) == RemoveAt(q, FirstIndex(q, QueueMin(q)))

\* ---- __init__ --------------------------------------------------------------
NewMetrics ==
    [total_tasks |-> 0, completed_tasks |-> 0, failed_tasks |-> 0,
     queue_size |-> 0, active_workers |-> 0]

NoProbe == [fn |-> "none", in |-> None, out |-> None]

Init ==
    /\ probe = NoProbe
    /\ max_workers \in 1..MaxThreads
    /\ max_queue_size \in 1..MaxQueueSize
    /\ queues = [p \in ProcessingPriority |-> << >>]
    /\ objs = << >>
    /\ tasks = EmptyDict
    /\ completed_tasks = EmptyDict
    /\ failed_tasks = EmptyDict
    /\ is_running = FALSE
    /\ workers = << >>
    /\ metrics = NewMetrics
    /\ timers = EmptyBag
    /\ ctl = "idle"
    /\ submit_ret = "none"

\* ---- submit_task -----------------------------------------------------------
NewTask(task_id, task_type, data, priority, t) ==
    [task_id |-> task_id, task_type |-> task_type, data |-> data,
     priority |-> priority, status |-> "pending", created_at |-> t,
     started_at |-> None, completed_at |-> None, retry_count |-> 0,
     max_retries |-> max_retries, error_message |-> None, result |-> None,
     confidence_score |-> None, processing_time |-> None]

\* submit_task without the bound of the queue: the put always succeeds
submit_task_unbounded(task_type, data, priority, t) ==
    /\ Len(objs) < MaxSubmits
    /\ IF ~JsonSerializable(data)
       THEN /\ submit_ret' = "raised"
            /\ UNCHANGED << queues, objs, tasks, failed_tasks, metrics >>
       ELSE LET task_id == md5(task_type, data, t)
                o == Len(objs) + 1
            IN  /\ tasks' = Put(tasks, task_id, o)
                /\ submit_ret' = "returned"
                /\ queues' = [queues EXCEPT ![priority] = Append(@, task_id)]
                /\ objs' = Append(objs, NewTask(task_id, task_type, data, priority, t))
                /\ metrics' = [metrics EXCEPT !.total_tasks = @ + 1,
                                              !.queue_size = @ + 1]
                /\ UNCHANGED failed_tasks
    /\ UNCHANGED << config, probe, completed_tasks, is_running, workers, timers, ctl >>

submit_task(task_type, data, priority, t) ==
    /\ Len(objs) < MaxSubmits
    /\ IF ~JsonSerializable(data)
       THEN \* _generate_task_id: json.dumps raises TypeError, nothing is tracked
            /\ submit_ret' = "raised"
            /\ UNCHANGED << queues, objs, tasks, failed_tasks, metrics >>
       ELSE LET task_id == md5(task_type, data, t)
                o == Len(objs) + 1
                task == NewTask(task_id, task_type, data, priority, t)
            IN  /\ tasks' = Put(tasks, task_id, o)
                /\ submit_ret' = "returned"
                /\ IF ~Full(queues[priority])
                   THEN /\ queues' = [queues EXCEPT ![priority] = Append(@, task_id)]
                        /\ objs' = Append(objs, task)
                        /\ metrics' = [metrics EXCEPT !.total_tasks = @ + 1,
                                                      !.queue_size = @ + 1]
                        /\ UNCHANGED failed_tasks
                   ELSE \* queue.Full after the put's timeout
                        /\ objs' = Append(objs, [task EXCEPT !.status = "failed",
                                                   !.error_message = Some("Queue full")])
                        /\ failed_tasks' = Put(failed_tasks, task_id, o)
                        /\ metrics' = [metrics EXCEPT !.total_tasks = @ + 1]
                        /\ UNCHANGED queues
    /\ UNCHANGED << config, probe, completed_tasks, is_running, workers, timers, ctl >>

\* time.time() does not run backwards: the first call reads the origin, a
\* later call the value the latest tracked submission read or the next one
Now == IF objs = << >> THEN 0 ELSE objs[Len(objs)].created_at

Clock == IF objs = << >> THEN {0} ELSE { t \in {Now, Now + 1} : t <= MaxClock }

\* the caller's loop over submissions (advanced_ui.py): an exception leaving
\* submit_task ends the loop, so no further call follows it
Submit ==
    /\ submit_ret # "raised"
    /\ \E inp \in SubmitInputs, t \in Clock :
           submit_task(inp[1], inp[2], inp[3], t)

\* ---- start / stop ----------------------------------------------------------
NewThread == [pc |-> "new", pos |-> 0, task_id |-> None, task |-> 0]

\* start() without its test of is_running: every call spawns max_workers threads
start_always ==
    /\ ctl = "idle"
    /\ Len(workers) + max_workers <= MaxThreads
    /\ is_running' = TRUE
    /\ workers' = workers \o [i \in 1..max_workers |-> NewThread]
    /\ UNCHANGED << config, queues, objs, tasks, completed_tasks, failed_tasks,
                    metrics, timers, ctl, submit_ret >>

\* start(): returns at once when the pipeline runs, else sets the flag and
\* spawns max_workers threads running _worker_loop
start ==
    /\ ctl = "idle"
    /\ IF is_running
       THEN UNCHANGED pipeline
       ELSE /\ Len(workers) + max_workers <= MaxThreads
            /\ is_running' = TRUE
            /\ workers' = workers \o [i \in 1..max_workers |-> NewThread]
            /\ UNCHANGED << config, queues, objs, tasks, completed_tasks, failed_tasks,
                            metrics, timers, ctl, submit_ret >>

\* stop(): returns at once when the pipeline does not run, else clears the
\* flag, then joins every thread with a 5 s timeout
stop ==
    /\ ctl = "idle"
    /\ IF ~is_running
       THEN UNCHANGED pipeline
       ELSE /\ is_running' = FALSE
            /\ ctl' = "joining"
            /\ UNCHANGED << config, queues, objs, tasks, completed_tasks, failed_tasks,
                            workers, metrics, timers, submit_ret >>

\* the joins return: a polling thread has seen the flag within its four 1 s
\* polls; only a thread inside a handler can outlast the 5 s timeout
stop_return ==
    /\ ctl = "joining"
    /\ \A w \in DOMAIN workers : workers[w].pc \in {"stopped", "handler"}
    /\ ctl' = "idle"
    /\ UNCHANGED << config, probe, queues, objs, tasks, completed_tasks, failed_tasks,
                    is_running, workers, metrics, timers, submit_ret >>

\* ---- _handle_task_error ------------------------------------------------------
\* S carries the fields the caller has already updated; the result adds
\* `raised`: the KeyError of `del self.tasks[task.task_id]` leaves the function
_handle_task_error(S, o, error) ==
    LET rc == S.objs[o].retry_count + 1
        id == S.objs[o].task_id
        counted == [S.objs EXCEPT ![o].retry_count = rc,
                                  ![o].error_message = Some(error)]
    IN  IF rc <= S.objs[o].max_retries
        THEN [S EXCEPT !.objs = [counted EXCEPT ![o].status = "retrying"],
                       !.timers = @ (+) SetToBag({id}),
                       !.raised = FALSE]
        ELSE LET F == [S EXCEPT !.objs = [counted EXCEPT ![o].status = "failed"],
                                !.failed_tasks = Put(@, id, o)]
             IN  IF id \in DOMAIN S.tasks
                 THEN [F EXCEPT !.tasks = Del(@, id),
                                !.metrics = [@ EXCEPT !.failed_tasks = @ + 1,
                                                      !.active_workers = @ - 1,
                                                      !.queue_size = @ - 1],
                                !.raised = FALSE]
                 ELSE [F EXCEPT !.raised = TRUE]

Shared ==
    [objs |-> objs, tasks |-> tasks, completed_tasks |-> completed_tasks,
     failed_tasks |-> failed_tasks, metrics |-> metrics, timers |-> timers,
     raised |-> FALSE]

Commit(S) ==
    /\ objs' = S.objs
    /\ tasks' = S.tasks
    /\ completed_tasks' = S.completed_tasks
    /\ failed_tasks' = S.failed_tasks
    /\ metrics' = S.metrics
    /\ timers' = S.timers

\* ---- _calculate_confidence_score ---------------------------------------------
Get(d, k, default) == IF k \in DOMAIN d THEN d[k] ELSE default

Max(a, b) == IF a >= b THEN a ELSE b
Min(a, b) == IF a <= b THEN a ELSE b

ClampUpperOnly(c) == Min(100, c)

Clamp(c) == Max(0, Min(100, c))

TypeBase(task_type, result) ==
    CASE task_type = "ocr_extraction" ->
            LET text_length == Get(result, "extracted_text_len", 0)
                byLength == IF text_length > 100 THEN 90
                            ELSE IF text_length < 10 THEN 60 ELSE 80
            IN  IF Get(result, "ocr_errors", 0) > 0 THEN byLength - 10 ELSE byLength
      [] task_type = "grading" -> Get(result, "grading_confidence", 50)
      [] task_type = "file_processing" ->
            IF Get(result, "processing_success", FALSE) THEN 90 ELSE 60
      [] OTHER -> 80

TimeAdjust(processing_time) ==
    IF processing_time = None \/ processing_time = Some(0) THEN 0
    ELSE IF processing_time[1] < 5 THEN 5
    ELSE IF processing_time[1] > 30 THEN -5 ELSE 0

RetryPenalty(retry_count) == IF retry_count > 0 THEN retry_count * 10 ELSE 0

_calculate_confidence_score(task, result) ==
    Clamp(TypeBase(task.task_type, result) + TimeAdjust(task.processing_time)
          - RetryPenalty(task.retry_count))

\* ---- _worker_loop / _process_task ----------------------------------------------
SetThread(w, pc, pos, task_id, task) ==
    workers' = [workers EXCEPT ![w] = [pc |-> pc, pos |-> pos,
                                       task_id |-> task_id, task |-> task]]

\* `while self.is_running`: the thread goes on to poll URGENT, or leaves the
\* loop.  A thread tests the flag right after the step that ended its last
\* pass, so every step below that ends a pass ends with this test.
LoopTest(w) ==
    IF is_running
    THEN SetThread(w, "get", 1, None, 0)
    ELSE SetThread(w, "stopped", 0, None, 0)

\* a thread start() created is scheduled for the first time
worker_begin(w) ==
    /\ workers[w].pc = "new"
    /\ LoopTest(w)
    /\ UNCHANGED << config, probe, queues, objs, tasks, completed_tasks, failed_tasks,
                    is_running, metrics, timers, ctl, submit_ret >>

\* get(timeout=1) on an empty queue: queue.Empty, poll the next class; after
\* LOW, task_id is None and the loop starts over
worker_get_empty(w) ==
    /\ workers[w].pc = "get"
    /\ queues[ScanOrder[workers[w].pos]] = << >>
    /\ IF workers[w].pos < Len(ScanOrder)
       THEN SetThread(w, "get", workers[w].pos + 1, None, 0)
       ELSE LoopTest(w)
    /\ UNCHANGED << config, probe, queues, objs, tasks, completed_tasks, failed_tasks,
                    is_running, metrics, timers, ctl, submit_ret >>

NoHandlerError == "No handler registered for task type"

\* _process_task up to the handler call
_process_task(w, task_id) ==
    IF task_id \notin DOMAIN tasks
    THEN /\ LoopTest(w)
         /\ UNCHANGED << objs, tasks, completed_tasks, failed_tasks, metrics,
                         timers >>
    ELSE LET o == tasks[task_id]
             S == [Shared EXCEPT
                     !.objs = [@ EXCEPT ![o].status = "processing",
                                        ![o].started_at = Some("datetime")],
                     !.metrics = [@ EXCEPT !.active_workers = @ + 1,
                                           !.queue_size = @ - 1]]
         IN  IF objs[o].task_type \notin task_handlers
             THEN LET E == _handle_task_error(S, o, NoHandlerError)
                  IN  /\ Commit(E)
                      /\ IF E.raised THEN SetThread(w, "sleep", 0, None, 0) ELSE LoopTest(w)
             ELSE /\ Commit(S)
                  /\ SetThread(w, "handler", 0, Some(task_id), o)

\* get() returns an entry: the thread goes on into _process_task
worker_get(w) ==
    /\ workers[w].pc = "get"
    /\ LET p == ScanOrder[workers[w].pos]
       IN  /\ queues[p] # << >>
           /\ queues' = [queues EXCEPT ![p] = QueuePop(@)]
           /\ _process_task(w, QueueMin(queues[p]))
    /\ UNCHANGED << config, probe, is_running, ctl, submit_ret >>

\* handler(task.data) returns `result` after `duration` seconds
handler_return(w, result, duration) ==
    /\ workers[w].pc = "handler"
    /\ LET o == workers[w].task
           task_id == workers[w].task_id[1]
           confidence_score == _calculate_confidence_score(objs[o], result)
           S == [Shared EXCEPT
                   !.objs = [@ EXCEPT ![o].status = "completed",
                                      ![o].completed_at = Some("datetime"),
                                      ![o].result = Some(result),
                                      ![o].confidence_score = Some(confidence_score),
                                      ![o].processing_time = Some(duration)],
                   !.completed_tasks = Put(@, task_id, o)]
       IN  IF task_id \in DOMAIN tasks
           THEN /\ Commit([S EXCEPT !.tasks = Del(@, task_id),
                                    !.metrics = [@ EXCEPT !.completed_tasks = @ + 1,
                                                          !.active_workers = @ - 1]])
                /\ LoopTest(w)
           ELSE \* del self.tasks[task_id] raises KeyError inside the try
                LET E == _handle_task_error(S, o, "KeyError")
                IN  /\ Commit(E)
                    /\ IF E.raised THEN SetThread(w, "sleep", 0, None, 0) ELSE LoopTest(w)
    /\ UNCHANGED << config, probe, queues, is_running, ctl, submit_ret >>

\* handler(task.data) raises, and the thread waits in the except clause
\* before it scans again
handler_raise_waits(w) ==
    /\ workers[w].pc = "handler"
    /\ LET E == _handle_task_error(Shared, workers[w].task, "handler error")
       IN  /\ Commit(E)
           /\ SetThread(w, "sleep", 0, None, 0)
    /\ UNCHANGED << config, probe, queues, is_running, ctl, submit_ret >>

\* handler(task.data) raises
handler_raise(w) ==
    /\ workers[w].pc = "handler"
    /\ LET E == _handle_task_error(Shared, workers[w].task, "handler error")
       IN  /\ Commit(E)
           /\ IF E.raised THEN SetThread(w, "sleep", 0, None, 0) ELSE LoopTest(w)
    /\ UNCHANGED << config, probe, queues, is_running, ctl, submit_ret >>

\* `except Exception` of _worker_loop: time.sleep(1) is over
worker_sleep(w) ==
    /\ workers[w].pc = "sleep"
    /\ LoopTest(w)
    /\ UNCHANGED << config, probe, queues, objs, tasks, completed_tasks, failed_tasks,
                    is_running, metrics, timers, ctl, submit_ret >>

\* ---- _retry_task (a threading.Timer fires) --------------------------------------
\* _retry_task forgetting `del self.tasks[task_id]` on queue.Full
_retry_task_keeps_task(task_id) ==
    /\ BagIn(task_id, timers)
    /\ timers' = timers (-) SetToBag({task_id})
    /\ IF task_id \notin DOMAIN tasks
       THEN UNCHANGED << queues, objs, tasks, failed_tasks, metrics >>
       ELSE LET o == tasks[task_id]
                p == objs[o].priority
                reset == [objs EXCEPT ![o].status = "pending",
                                      ![o].started_at = None,
                                      ![o].completed_at = None,
                                      ![o].error_message = None,
                                      ![o].result = None]
            IN  IF ~Full(queues[p])
                THEN /\ queues' = [queues EXCEPT ![p] = Append(@, task_id)]
                     /\ objs' = reset
                     /\ metrics' = [metrics EXCEPT !.queue_size = @ + 1]
                     /\ UNCHANGED << tasks, failed_tasks >>
                ELSE \* queue.Full
                     /\ objs' = [reset EXCEPT ![o].status = "failed"]
                     /\ failed_tasks' = Put(failed_tasks, task_id, o)
                     /\ UNCHANGED << tasks, queues, metrics >>
    /\ UNCHANGED << config, probe, completed_tasks, is_running, workers, ctl,
                    submit_ret >>

_retry_task(task_id) ==
    /\ BagIn(task_id, timers)
    /\ timers' = timers (-) SetToBag({task_id})
    /\ IF task_id \notin DOMAIN tasks
       THEN UNCHANGED << queues, objs, tasks, failed_tasks, metrics >>
       ELSE LET o == tasks[task_id]
                p == objs[o].priority
                reset == [objs EXCEPT ![o].status = "pending",
                                      ![o].started_at = None,
                                      ![o].completed_at = None,
                                      ![o].error_message = None,
                                      ![o].result = None]
            IN  IF ~Full(queues[p])
                THEN /\ queues' = [queues EXCEPT ![p] = Append(@, task_id)]
                     /\ objs' = reset
                     /\ metrics' = [metrics EXCEPT !.queue_size = @ + 1]
                     /\ UNCHANGED << tasks, failed_tasks >>
                ELSE \* queue.Full after the put's timeout
                     /\ objs' = [reset EXCEPT ![o].status = "failed"]
                     /\ failed_tasks' = Put(failed_tasks, task_id, o)
                     /\ tasks' = Del(tasks, task_id)
                     /\ UNCHANGED << queues, metrics >>
    /\ UNCHANGED << config, probe, completed_tasks, is_running, workers, ctl,
                    submit_ret >>

Worker ==
    \E w \in DOMAIN workers :
        \/ worker_begin(w)
        \/ worker_get_empty(w)
        \/ worker_get(w)
        \/ /\ workers[w].pc = "handler"
           /\ \E d \in Durations, r \in HandlerResults(objs[workers[w].task].task_type) :
                  handler_return(w, r, d)
        \/ handler_raise(w)
        \/ worker_sleep(w)

Timer == \E task_id \in BagToSet(timers) : _retry_task(task_id)

\* the application calls start() and stop()
Start == start /\ UNCHANGED probe

Stop == stop /\ UNCHANGED probe

Next ==
    \/ Submit
    \/ Start
    \/ Stop
    \/ stop_return
    \/ Worker
    \/ Timer

Spec == Init /\ [][Next]_vars

\* ---- _calculate_confidence_score on its own -------------------------------------
ProbeTypes ==
    {"ocr_extraction", "grading", "file_processing", "report_generation", "custom"}

ProbeResults ==
    { [extracted_text_len |-> n, ocr_errors |-> e] : n \in {0, 9, 10, 100, 101}, e \in {0, 1} }
      \cup { [grading_confidence |-> c] : c \in {0 - 20, 0, 50, 100, 130} }
      \cup { [processing_success |-> b] : b \in BOOLEAN }
      \cup { [report_filename |-> "report.docx"] }

ProbeTimes == {None, Some(0), Some(1), Some(5), Some(30), Some(40)}

ConfidenceInputs ==
    { [task |-> [NewTask(0, ty, JsonPayload, "NORMAL", 0) EXCEPT
                    !.processing_time = pt, !.retry_count = rc],
       result |-> r] :
        ty \in ProbeTypes, r \in ProbeResults, pt \in ProbeTimes,
        rc \in 0..MaxRetryCount }

InitConfidence ==
    /\ \E i \in ConfidenceInputs : probe = [fn |-> "confidence", in |-> Some(i), out |-> None]
    /\ max_workers = 1
    /\ max_queue_size = 1
    /\ queues = [p \in ProcessingPriority |-> << >>]
    /\ objs = << >>
    /\ tasks = EmptyDict
    /\ completed_tasks = EmptyDict
    /\ failed_tasks = EmptyDict
    /\ is_running = FALSE
    /\ workers = << >>
    /\ metrics = NewMetrics
    /\ timers = EmptyBag
    /\ ctl = "idle"
    /\ submit_ret = "none"

ApplyConfidence ==
    /\ probe.fn = "confidence"
    /\ probe.out = None
    /\ probe' = [probe EXCEPT
                    !.out = Some(_calculate_confidence_score(probe.in[1].task,
                                                             probe.in[1].result))]
    /\ UNCHANGED pipeline

NextConfidence == ApplyConfidence

SpecConfidence == InitConfidence /\ [][NextConfidence]_vars

\* ---- start() and stop() called in any order on a pipeline without tasks ----------
\* the fields of the pipeline object
State ==
    [queues |-> queues, objs |-> objs, tasks |-> tasks,
     completed_tasks |-> completed_tasks, failed_tasks |-> failed_tasks,
     is_running |-> is_running, workers |-> workers, metrics |-> metrics,
     timers |-> timers, ctl |-> ctl]

\* a call records the call made before it, the fields it found and the
\* fields it left
CallStart ==
    /\ start
    /\ probe' = [fn |-> "start", in |-> Some([prev |-> probe.fn, before |-> State]),
                 out |-> Some(State')]

CallStop ==
    /\ stop
    /\ probe' = [fn |-> "stop", in |-> Some([prev |-> probe.fn, before |-> State]),
                 out |-> Some(State')]

\* with every queue empty the threads only poll
Poll == \E w \in DOMAIN workers : worker_begin(w) \/ worker_get_empty(w)

NextLifecycle ==
    \/ CallStart
    \/ CallStop
    \/ stop_return
    \/ Poll

SpecLifecycle == Init /\ [][NextLifecycle]_vars

\* ---- the retry delay of _handle_task_error on its own ---------------------------
\* list[index] as Python evaluates it: a negative index counts from the end,
\* an index outside the list raises IndexError (None)
ListItem(list, index) ==
    IF 0 <= index /\ index < Len(list) THEN Some(list[index + 1])
    ELSE IF index < 0 /\ 0 - index <= Len(list) THEN Some(list[Len(list) + index + 1])
    ELSE None

\* the delay indexed by retry_count instead of retry_count - 1
RetryDelayFromCount(retry_count) ==
    ListItem(retry_delays, Min(retry_count, Len(retry_delays) - 1))

\* self.retry_delays[min(task.retry_count - 1, len(self.retry_delays) - 1)]
RetryDelay(retry_count) ==
    ListItem(retry_delays, Min(retry_count - 1, Len(retry_delays) - 1))

\* a pipeline nothing has been submitted to
FreshPipeline ==
    /\ max_workers = 1
    /\ max_queue_size = 1
    /\ queues = [p \in ProcessingPriority |-> << >>]
    /\ objs = << >>
    /\ tasks = EmptyDict
    /\ completed_tasks = EmptyDict
    /\ failed_tasks = EmptyDict
    /\ is_running = FALSE
    /\ workers = << >>
    /\ metrics = NewMetrics
    /\ timers = EmptyBag
    /\ ctl = "idle"
    /\ submit_ret = "none"

\* a PROCESSING task that has failed retry_count times so far, and the error
\* of its latest run
BackoffInputs ==
    { [task |-> [NewTask(0, "grading", JsonPayload, "NORMAL", 0) EXCEPT
                    !.status = "processing", !.retry_count = rc, !.max_retries = mr],
       error |-> e] :
        rc \in 0..MaxRetryCount, mr \in 0..MaxRetryCount,
        e \in {"handler error", NoHandlerError} }

InitBackoff ==
    /\ \E i \in BackoffInputs : probe = [fn |-> "backoff", in |-> Some(i), out |-> None]
    /\ FreshPipeline

\* _handle_task_error(task, error): the task as it leaves it, whether a
\* threading.Timer was started, and its delay
ApplyBackoff ==
    /\ probe.fn = "backoff"
    /\ probe.out = None
    /\ LET task == probe.in[1].task
           S == [Shared EXCEPT !.objs = << task >>,
                               !.tasks = Put(EmptyDict, task.task_id, 1)]
           E == _handle_task_error(S, 1, probe.in[1].error)
           scheduled == BagIn(task.task_id, E.timers)
       IN  probe' = [probe EXCEPT
                       !.out = Some([task |-> E.objs[1], scheduled |-> scheduled,
                                     delay |-> IF scheduled
                                               THEN RetryDelay(E.objs[1].retry_count)
                                               ELSE None])]
    /\ UNCHANGED pipeline

NextBackoff == ApplyBackoff

SpecBackoff == InitBackoff /\ [][NextBackoff]_vars

\* ---- utils/advanced_grading.py: AdvancedGradingSystem ----------------------------
\* Marks are in thousandths of a mark, percentages in hundredths of a percent,
\* credits and confidences in hundredths.  A value json gives as null, or any
\* other value that is not a number, is None; a number n is Some(n).

\* the dictionaries _extract_questions builds: 'marks' is what the test data
\* holds, a number of marks or a value float() rejects
Questions ==
    { [number |-> n, marks |-> m] :
        n \in 1..MaxQuestions, m \in {None, Some(0), Some(10)} }

\* the lists _extract_answers builds
AnswerLists ==
    UNION { [1..k -> { [number |-> n] : n \in 1..MaxQuestions }] : k \in 0..MaxQuestions }

\* one entry of "steps" in the analysis: partial_credit may be missing, not a
\* number, below 0.0 or at 1.0
StepData ==
    { [step_number |-> 1] }
      \cup { [step_number |-> 1, partial_credit |-> c] :
                c \in {None, Some(0 - 50), Some(100)} }

StepLists == UNION { [1..k -> StepData] : k \in 0..MaxSteps }

\* what ai_grading_manager._grade_answer_advanced does: it raises (the
\* AIGradingManager of utils/ai_grading.py has no such method: AttributeError),
\* or it returns the parsed analysis, which may be no dictionary at all
AnalysisOutcomes ==
    { [raised |-> TRUE] }
      \cup { [raised |-> FALSE, result |-> None] }
      \cup { [raised |-> FALSE, result |-> Some([steps |-> s, feedback |-> "Good work"])] :
                s \in StepLists }
      \cup { [raised |-> FALSE, result |-> Some([steps |-> << [step_number |-> 1] >>])] }
      \cup { [raised |-> FALSE, result |-> Some([weaknesses |-> << "Incomplete working" >>])] }

\* the first answer of the list, whatever its number
_find_first_answer(question_number, answers) ==
    IF answers = << >> THEN None ELSE Some(answers[1])

\* the first answer with the question's number, or None
_find_corresponding_answer(question_number, answers) ==
    LET hits == { i \in DOMAIN answers : answers[i].number = question_number }
    IN  IF hits = {} THEN None ELSE Some(answers[MinOf(hits)])

_extract_step_evaluations(analysis_result) ==
    IF "steps" \in DOMAIN analysis_result
    THEN [i \in DOMAIN analysis_result.steps |->
            [step_number |-> Get(analysis_result.steps[i], "step_number", 0),
             partial_credit |-> Get(analysis_result.steps[i], "partial_credit", Some(0)),
             confidence |-> Get(analysis_result.steps[i], "confidence", 80)]]
    ELSE << >>

RECURSIVE SumCredit(_)
SumCredit(step_evaluations) ==
    IF step_evaluations = << >> THEN 0
    ELSE step_evaluations[1].partial_credit[1] + SumCredit(Tail(step_evaluations))

RECURSIVE SumConfidence(_)
SumConfidence(scored) ==
    IF scored = << >> THEN 0 ELSE scored[1].confidence + SumConfidence(Tail(scored))

\* max_marks in marks; (total_credit / n) * 1.2 * max_marks is
\* 12 * total_credit * max_marks / n thousandths (exact for n = 2, 3, 4)
_calculate_partial_credit(step_evaluations, max_marks) ==
    IF step_evaluations = << >> THEN 0
    ELSE LET total_credit == SumCredit(step_evaluations)
             n == Len(step_evaluations)
             weighted == IF n > 1
                         THEN (12 * total_credit * max_marks) \div n
                         ELSE 10 * total_credit * max_marks
         IN  Min(weighted, max_marks * 1000)

\* (awarded / possible * 100) if possible > 0 else 0
Percentage(awarded, possible) ==
    IF possible > 0 THEN (awarded * 10000) \div possible ELSE 0

_calculate_question_confidence(step_evaluations, analysis_result) ==
    IF step_evaluations = << >> THEN 0
    ELSE LET step_confidence == SumConfidence(step_evaluations) \div Len(step_evaluations)
             analysis_quality ==
                 80 + (IF Len(step_evaluations) > 1 THEN 10 ELSE 0)
                    + (IF Get(analysis_result, "feedback", "") # "" THEN 10 ELSE 0)
         IN  (step_confidence + analysis_quality) \div 2

\* the QuestionScore of a question without an answer, and of a question whose
\* grading raised
NoAnswerScore(question_number, max_marks) ==
    [question_number |-> question_number, total_marks |-> max_marks * 1000,
     awarded_marks |-> 0, percentage |-> 0, step_evaluations |-> << >>,
     weaknesses |-> << "No answer provided" >>, confidence |-> 100]

ErrorScore(question_number, max_marks) ==
    [question_number |-> question_number, total_marks |-> max_marks * 1000,
     awarded_marks |-> 0, percentage |-> 0, step_evaluations |-> << >>,
     weaknesses |-> << "Error in grading" >>, confidence |-> 0]

\* the analysis makes the try block raise: the call raises, `'steps' in` a
\* value that is no dictionary, or sum() over a credit that is no number
AnalysisFails(analysis) ==
    \/ analysis.raised
    \/ analysis.result = None
    \/ \E i \in DOMAIN _extract_step_evaluations(analysis.result[1]) :
           _extract_step_evaluations(analysis.result[1])[i].partial_credit = None

\* the result names what the call did besides returning: `raised` (an
\* exception left the function), `ai_called` (_grade_answer_advanced was
\* called), `printed` (the except clause printed "Error grading question")
_grade_individual_question(question, answer, analysis) ==
    IF question.marks = None
    THEN \* float() raises in the try block and again in the except clause
         [raised |-> TRUE, ai_called |-> FALSE, printed |-> TRUE, score |-> None]
    ELSE LET question_number == question.number
             max_marks == question.marks[1]
         IN  IF answer = None
             THEN [raised |-> FALSE, ai_called |-> FALSE, printed |-> FALSE,
                   score |-> Some(NoAnswerScore(question_number, max_marks))]
             ELSE IF AnalysisFails(analysis)
             THEN [raised |-> FALSE, ai_called |-> TRUE, printed |-> TRUE,
                   score |-> Some(ErrorScore(question_number, max_marks))]
             ELSE LET analysis_result == analysis.result[1]
                      step_evaluations == _extract_step_evaluations(analysis_result)
                      awarded_marks == _calculate_partial_credit(step_evaluations, max_marks)
                  IN  [raised |-> FALSE, ai_called |-> TRUE, printed |-> FALSE,
                       score |-> Some(
                          [question_number |-> question_number,
                           total_marks |-> max_marks * 1000,
                           awarded_marks |-> awarded_marks,
                           percentage |-> Percentage(awarded_marks, max_marks * 1000),
                           step_evaluations |-> step_evaluations,
                           weaknesses |-> Get(analysis_result, "weaknesses", << >>),
                           confidence |-> _calculate_question_confidence(
                                              step_evaluations, analysis_result)])]

_calculate_grading_confidence(question_scores) ==
    IF question_scores = << >> THEN 0
    ELSE SumConfidence(question_scores) \div Len(question_scores)

\* ---- grade_submission_advanced, one call ---------------------------------------
\* the call's position (pc) and locals; `calls` holds, for each question the
\* loop has taken, what _grade_individual_question did
NewGrading(submission, answers) ==
    [fn |-> "grading", in |-> Some([submission |-> submission, answers |-> answers]),
     out |-> None, pc |-> "called", question_scores |-> << >>,
     total_awarded |-> 0, total_possible |-> 0, calls |-> << >>]

InitGrading ==
    /\ \E submission \in BOOLEAN, answers \in AnswerLists :
           probe = NewGrading(submission, answers)
    /\ max_workers = 1
    /\ max_queue_size = 1
    /\ queues = [p \in ProcessingPriority |-> << >>]
    /\ objs = << >>
    /\ tasks = EmptyDict
    /\ completed_tasks = EmptyDict
    /\ failed_tasks = EmptyDict
    /\ is_running = FALSE
    /\ workers = << >>
    /\ metrics = NewMetrics
    /\ timers = EmptyBag
    /\ ctl = "idle"
    /\ submit_ret = "none"

\* get_submission_by_id: ValueError("Submission not found") when there is none
grade_begin ==
    /\ probe.fn = "grading"
    /\ probe.pc = "called"
    /\ probe' = [probe EXCEPT !.pc = IF probe.in[1].submission THEN "loop" ELSE "raised"]
    /\ UNCHANGED pipeline

\* the loop's bookkeeping with total_possible fed from awarded_marks
AddScoreAwardedTwice(g, question_score) ==
    [g EXCEPT !.question_scores = Append(@, question_score),
              !.total_awarded = @ + question_score.awarded_marks,
              !.total_possible = @ + question_score.awarded_marks]

\* question_scores.append(question_score); total_awarded += ...; total_possible += ...
AddScore(g, question_score) ==
    [g EXCEPT !.question_scores = Append(@, question_score),
              !.total_awarded = @ + question_score.awarded_marks,
              !.total_possible = @ + question_score.total_marks]

\* one pass of `for question in questions`; an exception that leaves
\* _grade_individual_question leaves grade_submission_advanced too
grade_question(question, analysis) ==
    /\ probe.fn = "grading"
    /\ probe.pc = "loop"
    /\ Len(probe.calls) < MaxQuestions
    /\ LET answer == _find_corresponding_answer(question.number, probe.in[1].answers)
           r == _grade_individual_question(question, answer, analysis)
           called == [probe EXCEPT !.calls = Append(@, [ai_called |-> r.ai_called,
                                                        printed |-> r.printed])]
       IN  probe' = IF r.raised
                    THEN [called EXCEPT !.pc = "raised"]
                    ELSE AddScore(called, r.score[1])
    /\ UNCHANGED pipeline

GradeQuestion ==
    \E question \in Questions, analysis \in AnalysisOutcomes :
        grade_question(question, analysis)

\* the list of questions has ended: the GradingResult is built and returned
grade_return ==
    /\ probe.fn = "grading"
    /\ probe.pc = "loop"
    /\ probe' = [probe EXCEPT
                    !.pc = "returned",
                    !.out = Some(
                        [total_score |-> probe.total_awarded,
                         max_possible_score |-> probe.total_possible,
                         percentage |-> Percentage(probe.total_awarded,
                                                   probe.total_possible),
                         question_scores |-> probe.question_scores,
                         grading_confidence |->
                             _calculate_grading_confidence(probe.question_scores)])]
    /\ UNCHANGED pipeline

NextGrading ==
    \/ grade_begin
    \/ GradeQuestion
    \/ grade_return

SpecGrading == InitGrading /\ [][NextGrading]_vars

\* ---- the component scores of a QuestionScore on their own ------------------------
\* sum(partial_credit * (1.0 + i * 0.2)) over the steps, i from 0, in
\* thousandths
RECURSIVE WeightedCredit(_, _)
WeightedCredit(step_evaluations, i) ==
    IF step_evaluations = << >> THEN 0
    ELSE step_evaluations[1].partial_credit[1] * (10 + 2 * i)
           + WeightedCredit(Tail(step_evaluations), i + 1)

\* in thousandths
_calculate_mathematical_reasoning_score(step_evaluations) ==
    IF step_evaluations = << >> THEN 0
    ELSE WeightedCredit(step_evaluations, 0) \div Len(step_evaluations)

\* in hundredths
_calculate_conceptual_understanding_score(analysis_result) ==
    Get(analysis_result, "conceptual_understanding", 0)

\* in hundredths; the answer's text is given by what the three tests of it find
_calculate_presentation_score(answer) ==
    Min(50 + (IF answer.numbered_steps THEN 20 ELSE 0)
           + (IF answer.math_symbols THEN 10 ELSE 0)
           + (IF answer.over_20_words THEN 10 ELSE 0)
           + (IF Get(answer, "working_shown", FALSE) THEN 10 ELSE 0),
        100)

\* analyses whose credits and conceptual_understanding are within 0.0 to 1.0
ComponentInputs ==
    { [analysis_result |-> a, answer |-> b] :
        a \in { [steps |-> s, conceptual_understanding |-> c] :
                   s \in UNION { [1..k -> { [partial_credit |-> Some(v)] : v \in {0, 50, 100} }] :
                                 k \in 0..MaxSteps },
                   c \in {0, 70, 100} }
              \cup { [feedback |-> "Good work"] },
        b \in { [number |-> 1, numbered_steps |-> n, math_symbols |-> m,
                 over_20_words |-> l, working_shown |-> w] :
                   n \in BOOLEAN, m \in BOOLEAN, l \in BOOLEAN, w \in BOOLEAN } }

InitComponents ==
    /\ \E i \in ComponentInputs : probe = [fn |-> "components", in |-> Some(i), out |-> None]
    /\ FreshPipeline

\* lines 254 and 266-268 of _grade_individual_question
ApplyComponents ==
    /\ probe.fn = "components"
    /\ probe.out = None
    /\ LET step_evaluations == _extract_step_evaluations(probe.in[1].analysis_result)
       IN  probe' = [probe EXCEPT !.out = Some(
               [mathematical_reasoning_score |->
                    _calculate_mathematical_reasoning_score(step_evaluations),
                conceptual_understanding_score |->
                    _calculate_conceptual_understanding_score(probe.in[1].analysis_result),
                presentation_score |->
                    _calculate_presentation_score(probe.in[1].answer)])]
    /\ UNCHANGED pipeline

NextComponents == ApplyComponents

SpecComponents == InitComponents /\ [][NextComponents]_vars

\* ---- questions and answers parsed from raw text ---------------------------------
\* a line of text after strip(): written is Some(n) when the line starts with
\* the number n followed by "." or ")" (for answers also "Answer n"), so that
\* the regular expression matches, and None otherwise
Lines ==
    { [written |-> h] : h \in {None} \cup { Some(n) : n \in 1..MaxWritten } }

\* text.split('\n')
Texts == UNION { [1..k -> Lines] : k \in 0..MaxLines }

\* the loop over the lines: a matching line closes the current block and opens
\* one with 'number': len(blocks) + 1 and the line as its text, another line
\* is appended to the text of the current block, if there is one
RECURSIVE ParseText(_, _, _)
ParseText(lines, blocks, current) ==
    IF lines = << >>
    THEN IF current # None THEN Append(blocks, current[1]) ELSE blocks
    ELSE IF lines[1].written # None
         THEN LET closed == IF current # None THEN Append(blocks, current[1]) ELSE blocks
              IN  ParseText(Tail(lines), closed,
                            Some([number |-> Len(closed) + 1, text |-> <<lines[1]>>]))
         ELSE IF current # None
              THEN ParseText(Tail(lines), blocks,
                             Some([current[1] EXCEPT !.text = Append(@, lines[1])]))
              ELSE ParseText(Tail(lines), blocks, None)

\* the str branch of _extract_questions
_extract_questions(test_data) ==
    LET blocks == ParseText(test_data, << >>, None)
    IN  [i \in DOMAIN blocks |->
            [number |-> blocks[i].number, text |-> blocks[i].text,
             marks |-> Some(10), type |-> "unknown"]]

\* the str branch of _extract_answers
_extract_answers(answer_data) ==
    LET blocks == ParseText(answer_data, << >>, None)
    IN  [i \in DOMAIN blocks |->
            [number |-> blocks[i].number, text |-> blocks[i].text,
             working_shown |-> FALSE]]

InitParsing ==
    /\ \E t \in Texts, a \in Texts :
          probe = [fn |-> "parse", in |-> Some([test_data |-> t, answer_data |-> a]),
                   out |-> None]
    /\ FreshPipeline

\* lines 88-89 and 97 of grade_submission_advanced
ApplyParsing ==
    /\ probe.fn = "parse"
    /\ probe.out = None
    /\ LET questions == _extract_questions(probe.in[1].test_data)
           answers == _extract_answers(probe.in[1].answer_data)
       IN  probe' = [probe EXCEPT !.out = Some(
               [questions |-> questions,
                answers |-> answers,
                answer |-> [i \in DOMAIN questions |->
                              _find_corresponding_answer(questions[i].number, answers)]])]
    /\ UNCHANGED pipeline

NextParsing == ApplyParsing

SpecParsing == InitParsing /\ [][NextParsing]_vars

\* ---- get_metrics ------------------------------------------------------------------
RECURSIVE SumOver(_, _)
SumOver(f, S) ==
    IF S = {} THEN 0
    ELSE LET x == CHOOSE y \in S : TRUE IN f[x] + SumOver(f, S \ {x})

\* the record get_metrics returns: the counters as submit_task, _process_task and
\* _handle_task_error left them, queue_size and active_workers computed afresh
get_metrics ==
    [metrics EXCEPT
        !.queue_size = SumOver([p \in ProcessingPriority |-> Len(queues[p])],
                               ProcessingPriority),
        !.active_workers =
            Cardinality({ task_id \in DOMAIN tasks :
                            objs[tasks[task_id]].status = "processing" })]

\* ---- properties ------------------------------------------------------------------
Higher(p1, p2) == PriorityValue(p1) > PriorityValue(p2)

\* a step in which a worker's get() took an entry from the queue of class p
Dequeue(p) == Len(queues'[p]) < Len(queues[p])

Terminal(o) == objs[o].status \in {"completed", "failed"}

QueuesDrained == \A p \in ProcessingPriority : queues[p] = << >>

\* the pipeline runs, nothing is queued, no retry timer is pending and no
\* thread is inside a handler or about to start
Settled ==
    /\ is_running
    /\ workers # << >>
    /\ QueuesDrained
    /\ timers = EmptyBag
    /\ \A w \in DOMAIN workers : workers[w].pc \in {"get", "stopped"}

\* C1: with the pipeline running, once all queues are drained, every handler
\* call has ended and every backoff delay has passed, every submitted task is
\* COMPLETED or FAILED: none is left PENDING, PROCESSING or RETRYING.
C1_AllTasksSettle == Settled => \A o \in DOMAIN objs : Terminal(o)

\* a step of submit_task that tracked a new task while the queue of its
\* priority class held max_queue_size entries
SubmitToFull ==
    /\ Len(objs') = Len(objs) + 1
    /\ Full(queues[objs'[Len(objs')].priority])

\* C2: submit_task to a class whose queue is full does not raise; it returns
\* the id of a task that is FAILED with the message "Queue full", and leaves
\* the queues as they were.
C2_SubmitToFullQueue ==
    [][SubmitToFull =>
         LET o == Len(objs')
             id == objs'[o].task_id
         IN  /\ submit_ret' = "returned"
             /\ id \in DOMAIN tasks' /\ tasks'[id] = o
             /\ id \in DOMAIN failed_tasks' /\ failed_tasks'[id] = o
             /\ objs'[o].status = "failed"
             /\ objs'[o].error_message = Some("Queue full")
             /\ queues' = queues]_vars

C2_Witness ==
    /\ submit_ret = "returned"
    /\ objs # << >>
    /\ LET o == Len(objs)
       IN  /\ objs[o].status = "failed"
           /\ objs[o].error_message = Some("Queue full")
           /\ objs[o].retry_count = 0
           /\ Len(queues[objs[o].priority]) = max_queue_size

\* C3: submit_task never raises, whatever the task type, payload and priority.
C3_SubmitNeverRaises == submit_ret # "raised"

\* no task has been taken from a queue yet
NothingDequeued ==
    \A o \in DOMAIN objs :
        /\ objs[o].retry_count = 0
        /\ objs[o].started_at = None
        /\ objs[o].status \in {"pending", "failed"}

\* no two tracked submissions share a task id
DistinctIds ==
    \A a, b \in DOMAIN objs : a # b => objs[a].task_id # objs[b].task_id

\* C4: with a single worker and every task enqueued before the worker's first
\* dequeue, no task of a class is dequeued while a task of a higher class
\* waits (stated for that first dequeue, of tasks with distinct ids).
C4_SingleWorkerPriorityOrder ==
    [][\A p2 \in ProcessingPriority :
         (Len(workers) = 1 /\ NothingDequeued /\ DistinctIds /\ Dequeue(p2)) =>
            \A p1 \in ProcessingPriority : Higher(p1, p2) => queues[p1] = << >>]_vars

\* C5: at every dequeue the task taken is of the highest class that holds a
\* waiting task at that moment (stated for tasks with distinct ids).
C5_HighestPriorityFirst ==
    [][\A p2 \in ProcessingPriority :
         (DistinctIds /\ Dequeue(p2)) =>
            \A p1 \in ProcessingPriority : Higher(p1, p2) => queues[p1] = << >>]_vars

\* C6: within one class, tasks are dequeued in the order they were enqueued:
\* a dequeue takes the entry that has been in the queue longest.
C6_FifoWithinClass ==
    [][\A p \in ProcessingPriority :
         Dequeue(p) => queues'[p] = Tail(queues[p])]_vars

\* C7: a task whose type has no registered handler is never retried: it never
\* enters RETRYING, no retry timer is scheduled for it, and its handler lookup
\* (each of which counts one retry_count) happens at most once.
C7_NoHandlerNoRetry ==
    \A o \in DOMAIN objs :
        objs[o].task_type \notin task_handlers =>
            /\ objs[o].status # "retrying"
            /\ objs[o].retry_count <= 1
            /\ ~BagIn(objs[o].task_id, timers)

\* C8: retry_count never exceeds max_retries+1, and a task that FAILED because
\* its handler kept raising has retry_count = max_retries+1.
C8_RetryCountBound ==
    \A o \in DOMAIN objs :
        /\ objs[o].retry_count <= objs[o].max_retries + 1
        /\ (objs[o].status = "failed" /\ objs[o].error_message = Some("handler error"))
              => objs[o].retry_count = objs[o].max_retries + 1

\* a step in which the retry timer of task_id fired while the task was tracked
\* and the queue of its priority class was full
RetryIntoFull(task_id) ==
    /\ CopiesIn(task_id, timers') < CopiesIn(task_id, timers)
    /\ task_id \in DOMAIN tasks
    /\ Full(queues[objs[tasks[task_id]].priority])

\* C9: when a retry timer fires and the task's queue is full, the task goes
\* straight to FAILED, leaves the pending map for the failed set, no new retry
\* is scheduled, and the queues are unchanged.
C9_RetryIntoFullQueue ==
    [][\A task_id \in BagToSet(timers) :
         RetryIntoFull(task_id) =>
            LET o == tasks[task_id]
            IN  /\ objs'[o].status = "failed"
                /\ task_id \notin DOMAIN tasks'
                /\ task_id \in DOMAIN failed_tasks' /\ failed_tasks'[task_id] = o
                /\ timers' = timers (-) SetToBag({task_id})
                /\ queues' = queues]_vars

C9_Witness ==
    \E o \in DOMAIN objs :
        /\ objs[o].status = "failed"
        /\ objs[o].retry_count >= 1
        /\ objs[o].error_message = None
        /\ objs[o].task_id \notin DOMAIN tasks
        /\ objs[o].task_id \in DOMAIN failed_tasks /\ failed_tasks[objs[o].task_id] = o
        /\ Len(queues[objs[o].priority]) = max_queue_size
        /\ ~BagIn(objs[o].task_id, timers)

\* C10: the confidence score of a completed task lies in [0.0, 1.0] for every
\* task type, handler result, processing time and retry_count.
C10_ConfidenceInRange ==
    (probe.fn = "confidence" /\ probe.out # None) =>
        (probe.out[1] >= 0 /\ probe.out[1] <= 100)

C10_Witness ==
    /\ probe.fn = "confidence"
    /\ probe.out = Some(0)
    /\ probe.in[1].task.retry_count > Len(retry_delays)
    /\ probe.in[1].task.processing_time = Some(0)
    /\ probe.in[1].task.task_type = "ocr_extraction"
    /\ Get(probe.in[1].result, "extracted_text_len", 1) = 0

\* the edges of the status graph, the last one being the admission error
StatusEdges ==
    { << "pending", "processing" >>, << "processing", "completed" >>,
      << "processing", "retrying" >>, << "retrying", "pending" >>,
      << "processing", "failed" >>, << "pending", "failed" >> }

\* two edges that one step takes together: a failed handler lookup sets
\* PROCESSING and then RETRYING or FAILED, a retry timer that finds the queue
\* full sets PENDING and then FAILED
MergedEdges ==
    { << "pending", "retrying" >>, << "pending", "failed" >>,
      << "retrying", "failed" >> }

\* C11: every change of a task's status follows an edge of the status graph;
\* COMPLETED and FAILED are terminal: no task leaves them.
C11_StatusEdges ==
    [][\A o \in DOMAIN objs :
         objs'[o].status # objs[o].status =>
            << objs[o].status, objs'[o].status >> \in StatusEdges \cup MergedEdges]_vars

\* the threads inside the handler of the task tracked under task_id
Owners(task_id) ==
    { w \in DOMAIN workers :
        workers[w].pc = "handler" /\ workers[w].task_id = Some(task_id) }

\* the entries of all queues that hold task_id
QueuedCopies(task_id) ==
    UNION { { << p, i >> : i \in { j \in DOMAIN queues[p] : queues[p][j] = task_id } } :
            p \in ProcessingPriority }

TaskIds == { objs[o].task_id : o \in DOMAIN objs }

\* C12: no two threads are inside the handler of one task id at once, a retry
\* timer that fires finds no thread inside the handler of its task, and every
\* task id is in the queues at most once.
C12_ExclusiveOwnership ==
    [][/\ \A task_id \in TaskIds' :
            /\ Cardinality(Owners(task_id)') <= 1
            /\ Cardinality(QueuedCopies(task_id)') <= 1
       /\ \A task_id \in BagToSet(timers) :
            CopiesIn(task_id, timers') < CopiesIn(task_id, timers)
                => Owners(task_id) = {}]_vars

\* C13: every submit_task call that returned an id has its own task record
\* under its own id: no two submissions share an id, and a waiting submission
\* is the task tracked under its id.
C13_OwnTaskPerSubmission ==
    \A a \in DOMAIN objs :
        /\ \A b \in DOMAIN objs : a # b => objs[a].task_id # objs[b].task_id
        /\ objs[a].status = "pending" =>
              /\ objs[a].task_id \in DOMAIN tasks
              /\ tasks[objs[a].task_id] = a

\* C14: start() on a running pipeline and stop() on a pipeline that does not
\* run change no field, and a call of either made right after a call of the
\* same changes no field.
C14_StartStopIdempotent ==
    probe.fn \in {"start", "stop"} =>
        LET before == probe.in[1].before
            after == probe.out[1]
        IN  /\ (probe.fn = "start" /\ before.is_running) => after = before
            /\ (probe.fn = "stop" /\ ~before.is_running) => after = before
            /\ probe.in[1].prev = probe.fn => after = before

C14_Witness ==
    /\ probe.fn = "stop"
    /\ probe.in[1].prev = "stop"
    /\ probe.in[1].before.workers # << >>
    /\ probe.out[1] = probe.in[1].before

\* C15: after stop() has cleared the flag no task goes from PENDING to
\* PROCESSING.
C15_NoPickupAfterStop ==
    [][~is_running =>
         \A o \in DOMAIN objs :
            objs'[o].status = "processing" => objs[o].status = "processing"]_vars

\* C16: every priority queue holds at most max_queue_size task ids.
C16_QueueBound ==
    \A p \in ProcessingPriority : Len(queues[p]) <= max_queue_size

C16_Witness ==
    \E p \in ProcessingPriority :
        /\ Len(queues[p]) = max_queue_size
        /\ max_queue_size = MaxQueueSize
        /\ \E o \in DOMAIN objs :
              /\ objs[o].priority = p
              /\ objs[o].status = "pending"
              /\ objs[o].retry_count >= 1
              /\ objs[o].task_id \in Range(queues[p])

\* a call of grade_submission_advanced
Grading == probe.fn = "grading"

\* the answers list holds an answer with this number
Answered(question_number) ==
    \E j \in DOMAIN probe.in[1].answers :
        probe.in[1].answers[j].number = question_number

\* C17: every QuestionScore has 0 <= awarded_marks <= total_marks, whatever
\* steps and partial_credit values the analysis reports.
C17_AwardedWithinTotal ==
    Grading =>
        \A i \in DOMAIN probe.question_scores :
            /\ 0 <= probe.question_scores[i].awarded_marks
            /\ probe.question_scores[i].awarded_marks
                  <= probe.question_scores[i].total_marks

RECURSIVE SumField(_, _)
SumField(scores, f) ==
    IF scores = << >> THEN 0 ELSE scores[1][f] + SumField(Tail(scores), f)

\* C18: in every GradingResult total_score is the sum of awarded_marks and
\* max_possible_score the sum of total_marks of its question_scores, and
\* percentage is total_score / max_possible_score * 100, or 0 when
\* max_possible_score is 0.
C18_TotalsAreSums ==
    (Grading /\ probe.pc = "returned") =>
        LET r == probe.out[1]
        IN  /\ r.total_score = SumField(r.question_scores, "awarded_marks")
            /\ r.max_possible_score = SumField(r.question_scores, "total_marks")
            /\ r.percentage = IF r.max_possible_score = 0 THEN 0
                              ELSE (r.total_score * 10000) \div r.max_possible_score

C18_Witness ==
    /\ Grading
    /\ probe.pc = "returned"
    /\ Len(probe.out[1].question_scores) = MaxQuestions
    /\ probe.out[1].total_score > 0
    /\ probe.out[1].total_score < probe.out[1].max_possible_score
    /\ \E i \in DOMAIN probe.out[1].question_scores :
          /\ probe.out[1].question_scores[i].awarded_marks = 0
          /\ probe.out[1].question_scores[i].total_marks > 0

\* C19: a question without an answer of its number gets a QuestionScore with
\* awarded_marks 0.0, percentage 0.0 and the one weakness "No answer
\* provided", and the AI analysis is not called for it.
C19_NoAnswerNoAnalysis ==
    Grading =>
        \A i \in DOMAIN probe.question_scores :
            ~Answered(probe.question_scores[i].question_number) =>
                /\ probe.question_scores[i].awarded_marks = 0
                /\ probe.question_scores[i].percentage = 0
                /\ probe.question_scores[i].weaknesses = << "No answer provided" >>
                /\ ~probe.calls[i].ai_called

C19_Witness ==
    /\ Grading
    /\ probe.in[1].answers # << >>
    /\ \E i, j \in DOMAIN probe.question_scores :
          /\ ~Answered(probe.question_scores[i].question_number)
          /\ probe.question_scores[i].weaknesses = << "No answer provided" >>
          /\ probe.question_scores[i].total_marks > 0
          /\ Answered(probe.question_scores[j].question_number)
          /\ probe.calls[j].ai_called

\* C20: an exception while one question is graded gives that question a
\* QuestionScore with no marks, the weakness "Error in grading" and
\* confidence 0, and grade_submission_advanced (of a submission that exists)
\* does not raise: it returns a QuestionScore for every question.
C20_QuestionErrorContained ==
    (Grading /\ probe.in[1].submission) =>
        /\ probe.pc # "raised"
        /\ \A i \in DOMAIN probe.question_scores :
              probe.calls[i].printed =>
                  /\ probe.question_scores[i].awarded_marks = 0
                  /\ probe.question_scores[i].weaknesses = << "Error in grading" >>
                  /\ probe.question_scores[i].confidence = 0
        /\ probe.pc = "returned" =>
              Len(probe.out[1].question_scores) = Len(probe.calls)

\* the threads that are inside the handler of the task object o
Handling(o) ==
    { w \in DOMAIN workers : workers[w].pc = "handler" /\ workers[w].task = o }

\* C21: a task with status PROCESSING is owned by exactly one worker, which
\* is executing its handler; none is PROCESSING with every worker idle or
\* exited.
C21_ProcessingHasOneOwner ==
    \A o \in DOMAIN objs :
        objs[o].status = "processing" => Cardinality(Handling(o)) = 1

\* C22: the delay before the n-th retry (n = retry_count after the failure,
\* n >= 1) is the n-th value of 1, 5, 15, 30 seconds and 30 seconds beyond
\* the fourth; delays do not decrease with n and the index is in range for
\* every max_retries.
C22_BackoffSchedule ==
    (probe.fn = "backoff" /\ probe.out # None /\ probe.out[1].scheduled) =>
        LET n == probe.out[1].task.retry_count
            delay == probe.out[1].delay
        IN  /\ n >= 1
            /\ delay # None
            /\ delay = Some(IF n <= 4 THEN << 1, 5, 15, 30 >>[n] ELSE 30)
            /\ \A m \in 1..n :
                  RetryDelay(m) # None /\ RetryDelay(m)[1] <= delay[1]

C22_Witness ==
    /\ probe.fn = "backoff"
    /\ probe.out # None
    /\ probe.out[1].scheduled
    /\ probe.out[1].task.status = "retrying"
    /\ probe.out[1].task.retry_count > Len(retry_delays)
    /\ probe.out[1].delay = Some(30)

\* the adjustment for a handler that ran processing_time seconds
MeasuredTimeAdjust(processing_time) ==
    IF processing_time < 5 THEN 5 ELSE IF processing_time > 30 THEN 0 - 5 ELSE 0

\* C23: the confidence score of a completed task counts its measured
\* processing time: 0.05 more when the handler ran under 5 s, 0.05 less when
\* it ran over 30 s, and 0.1 less for each retry (stated for tasks with
\* distinct ids).
C23_ConfidenceCountsProcessingTime ==
    DistinctIds =>
        \A o \in DOMAIN objs :
            objs[o].status = "completed" =>
                objs[o].confidence_score =
                    Some(Clamp(TypeBase(objs[o].task_type, objs[o].result[1])
                               + MeasuredTimeAdjust(objs[o].processing_time[1])
                               - 10 * objs[o].retry_count))

\* a step in which the handler thread w was running raised
HandlerRaised(w) ==
    /\ workers[w].pc = "handler"
    /\ workers'[w].pc # "handler"
    /\ objs'[workers[w].task].retry_count = objs[workers[w].task].retry_count + 1
    /\ objs'[workers[w].task].error_message = Some("handler error")

\* C24: when a task's handler raises, the worker goes straight back to
\* scanning the queues (or exits, the pipeline being stopped) while the task
\* is RETRYING with its timer pending, and no other task changes.
C24_FailureHoldsNoWorker ==
    [][\A w \in DOMAIN workers :
         HandlerRaised(w) =>
            /\ objs'[workers[w].task].status = "retrying" =>
                  /\ workers'[w].pc = IF is_running THEN "get" ELSE "stopped"
                  /\ BagIn(objs[workers[w].task].task_id, timers')
            /\ \A o \in DOMAIN objs \ {workers[w].task} : objs'[o] = objs[o]]_vars

\* the only worker runs the handler of one task while another task, which it
\* ran before, is RETRYING with its timer pending
C24_Witness ==
    /\ Len(workers) = 1
    /\ DistinctIds
    /\ workers[1].pc = "handler"
    /\ \E o \in DOMAIN objs :
          /\ o # workers[1].task
          /\ objs[o].status = "retrying"
          /\ objs[o].error_message = Some("handler error")
          /\ BagIn(objs[o].task_id, timers)

\* the threads whose _worker_loop is polling the queues
Polling == { w \in DOMAIN workers : workers[w].pc = "get" }

\* C25: whatever start() and stop() calls were made and however long the
\* handlers run, at most max_workers worker loops poll the queues at once.
C25_AtMostMaxWorkers == Cardinality(Polling) <= max_workers

\* C26: the mathematical_reasoning, conceptual_understanding and
\* presentation scores of a QuestionScore are within 0 and 1 for any number of
\* steps with partial_credit values within 0 and 1.
C26_ComponentScoresInRange ==
    (probe.fn = "components" /\ probe.out # None) =>
        /\ 0 <= probe.out[1].mathematical_reasoning_score
        /\ probe.out[1].mathematical_reasoning_score <= 1000
        /\ 0 <= probe.out[1].conceptual_understanding_score
        /\ probe.out[1].conceptual_understanding_score <= 100
        /\ 0 <= probe.out[1].presentation_score
        /\ probe.out[1].presentation_score <= 100

\* the number written at the start of a block's first line
Written(block) == block.text[1].written[1]

\* C27: questions and answers parsed from raw text are keyed by the number
\* written at the start of their first line, and a question is matched only
\* with the answer block that bears the same written number, also when
\* numbers are skipped.
C27_KeyedByWrittenNumber ==
    (probe.fn = "parse" /\ probe.out # None) =>
        LET out == probe.out[1]
        IN  /\ \A i \in DOMAIN out.questions : out.questions[i].number = Written(out.questions[i])
            /\ \A i \in DOMAIN out.answers : out.answers[i].number = Written(out.answers[i])
            /\ \A i \in DOMAIN out.questions :
                   out.answer[i] # None => Written(out.answer[i][1]) = Written(out.questions[i])

\* the submitted tasks with the given status
WithStatus(status) == { o \in DOMAIN objs : objs[o].status = status }

\* C28: when every submitted task is COMPLETED or FAILED, get_metrics() reports
\* failed_tasks = the number of FAILED tasks, completed_tasks = the number of
\* COMPLETED tasks and total_tasks = completed_tasks + failed_tasks, whichever
\* path made a task fail (stated for tasks with distinct ids).
C28_MetricsCountTerminalTasks ==
    (DistinctIds /\ \A o \in DOMAIN objs : Terminal(o)) =>
        /\ get_metrics.failed_tasks = Cardinality(WithStatus("failed"))
        /\ get_metrics.completed_tasks = Cardinality(WithStatus("completed"))
        /\ get_metrics.total_tasks = get_metrics.completed_tasks + get_metrics.failed_tasks

\* the collections that hold a task id
Holders(task_id) ==
    (IF task_id \in DOMAIN tasks THEN {"tasks"} ELSE {})
      \cup (IF task_id \in DOMAIN completed_tasks THEN {"completed_tasks"} ELSE {})
      \cup (IF task_id \in DOMAIN failed_tasks THEN {"failed_tasks"} ELSE {})

\* the collection a status belongs to
HomeOf(status) ==
    IF status = "completed" THEN "completed_tasks"
    ELSE IF status = "failed" THEN "failed_tasks"
    ELSE "tasks"

\* C29: every tracked task is held in exactly one of tasks, completed_tasks and
\* failed_tasks, the one its status belongs to (stated for tasks with distinct
\* ids).
C29_OneCollectionPerTask ==
    DistinctIds =>
        \A o \in DOMAIN objs :
            Holders(objs[o].task_id) # {} =>
                Holders(objs[o].task_id) = {HomeOf(objs[o].status)}

\* C30: every FAILED task has a non-empty error_message, on every path to
\* FAILED (stated for tasks with distinct ids).
C30_FailedHasMessage ==
    DistinctIds =>
        \A o \in DOMAIN objs :
            objs[o].status = "failed" =>
                objs[o].error_message # None /\ objs[o].error_message # Some("")

====
